---- MODULE Spec2Model ----
(***************************************************************************)
(* State-machine model of src/data_fetcher.py (SatelliteImageFetcher):     *)
(*   download_single_image, download_images_for_dataset,                   *)
(*   create_image_mapping and verify_images, over one images folder.       *)
(*                                                                         *)
(* Modelling conventions                                                   *)
(*  - A file name f'property_{x}.jpg' is the record                        *)
(*    [stem |-> "property_", id |-> x, ext |-> ".jpg"]; a path is          *)
(*    [folder |-> ..., name |-> ...] (os.path.join).                       *)
(*  - The folder is a function from file names to the content found there: *)
(*    "none" (no file), "valid" (decodes as an image), "corrupt" (exists   *)
(*    but does not decode), "other" (a file that is not an image at all).  *)
(*  - The remote tile API and PIL are the environment: what one request    *)
(*    does is drawn from Outcomes.  Latitude/longitude only feed the       *)
(*    request URL, so a row of the data frame is its id.                   *)
(*  - The data frame carries the default RangeIndex (pd.read_csv), so the  *)
(*    index label idx of the k-th row is k-1.                              *)
(***************************************************************************)
EXTENDS Integers, Sequences, FiniteSets, TLC

\* ------------------------------------------------------------------ bounds
NumIds == 3        \* property ids 1..NumIds
MaxRows == 3       \* rows of a data frame
MaxInterval == 2   \* progress_interval ranges over 1..MaxInterval
MaxSample == 3     \* sample_size ranges over 0..MaxSample

Ids == 1..NumIds
\* progress_interval is a positive count of rows (0 would divide by zero at
\* line 157)
Intervals == 1..MaxInterval
Folder == "images/train"

\* every sequence over S of length at most n
SeqsUpTo(S, n) == UNION {[1..k -> S] : k \in 0..n}

\* the data frames: ids are unique within one frame
DataFrames ==
    {df \in SeqsUpTo(Ids, MaxRows) : \A i, j \in DOMAIN df : i # j => df[i] # df[j]}

\* ------------------------------------------------------------ file system
ImageName(x) == [stem |-> "property_", id |-> x, ext |-> ".jpg"]
StrayName == [stem |-> "notes_", id |-> 0, ext |-> ".txt"]
Names == {ImageName(x) : x \in Ids} \cup {StrayName}

\* no file is at a name with this content
Absent(content) == content = "none"

os_path_join(folder, name) == [folder |-> folder, name |-> name]

\* os.path.exists(path) against the folder contents fs
os_path_exists(path, dir_exists, fs) ==
    /\ dir_exists
    /\ path.folder = Folder
    /\ path.name \in DOMAIN fs
    /\ ~Absent(fs[path.name])

EmptyFolder == [n \in Names |-> "none"]

\* ------------------------------------------------- download_single_image
Outcomes == {"ok", "http_error", "timeout", "network_error",
             "decode_error", "encode_error"}

\* The body of the try block (lines 61-80) for one request: either a return
\* value or the exception that leaves the block, and what is at save_path
\* afterwards.  img.save creates the file and removes it again when the
\* encoder fails on a file it created; a file that was already there is
\* left truncated.
TryBody(old, outcome) ==
    CASE outcome = "ok" ->
           [exc |-> "none", ret |-> TRUE, content |-> "valid"]
      [] outcome = "http_error" ->
           [exc |-> "none", ret |-> FALSE, content |-> old]
      [] outcome = "timeout" ->
           [exc |-> "Timeout", ret |-> FALSE, content |-> old]
      [] outcome = "network_error" ->
           [exc |-> "RequestException", ret |-> FALSE, content |-> old]
      [] outcome = "decode_error" ->
           [exc |-> "UnidentifiedImageError", ret |-> FALSE, content |-> old]
      [] OTHER ->
           [exc |-> "OSError", ret |-> FALSE,
            content |-> IF Absent(old) THEN old ELSE "corrupt"]

\* a handler mutant: only the requests exceptions are caught
CaughtOnlyRequests(exc) == exc \in {"Timeout", "RequestException"}

\* the except clauses (lines 82-90): Timeout, RequestException, Exception
Caught(exc) ==
    exc \in {"Timeout", "RequestException", "UnidentifiedImageError", "OSError"}

\* an encoder mutant: the file img.save created stays behind on failure
SingleImageLeavesPartial(old, outcome) ==
    LET t == TryBody(old, outcome) IN
    [raised |-> "none", ret |-> t.ret,
     content |-> IF outcome = "encode_error" THEN "corrupt" ELSE t.content]

\* download_single_image: the return value, the exception raised to the
\* caller ("none": it returned) and the content at save_path afterwards
download_single_image(old, outcome) ==
    LET t == TryBody(old, outcome) IN
    IF t.exc = "none" THEN [raised |-> "none", ret |-> t.ret, content |-> t.content]
    ELSE IF Caught(t.exc) THEN [raised |-> "none", ret |-> FALSE, content |-> t.content]
    ELSE [raised |-> t.exc, ret |-> FALSE, content |-> t.content]

\* -------------------------------------------- download_images_for_dataset
\* line 139: os.path.join(save_folder, f'property_{prop_id}.jpg')
image_file_path(save_folder, prop_id) ==
    os_path_join(save_folder, [stem |-> "property_", id |-> prop_id, ext |-> ".jpg"])

\* one observable step of a run: a skip, a call of download_single_image
\* (ok: its return value), a progress report, or a time.sleep(delay);
\* row is idx + 1 of the row being processed
Ev(kind, row, id, ok) == [kind |-> kind, row |-> row, id |-> id, ok |-> ok]

NoStats == [total |-> -1, successful |-> -1, failed |-> -1,
            failed_ids |-> <<>>, success_rate |-> -1]

\* the locals of a call that has not been made
IdleRun ==
    [pc |-> "idle", data_df |-> <<>>, progress_interval |-> 1, idx |-> 0,
     successful_count |-> 0, failed_count |-> 0, failed_property_ids |-> <<>>,
     error |-> "none", stats |-> NoStats, events |-> <<>>, rerun |-> FALSE]

\* lines 116-130: the locals as the loop is entered; rerun records that the
\* call repeats the call that just returned, on the same property set, with
\* every image of the set on disk
EnterLoop(prev, data_df, progress_interval, fs) ==
    [pc |-> "loop", data_df |-> data_df, progress_interval |-> progress_interval,
     idx |-> 0, successful_count |-> 0, failed_count |-> 0,
     failed_property_ids |-> <<>>, error |-> "none", stats |-> NoStats,
     events |-> <<>>,
     rerun |-> /\ prev.pc = "done"
               /\ {prev.data_df[k] : k \in DOMAIN prev.data_df}
                    = {data_df[k] : k \in DOMAIN data_df}
               /\ \A k \in DOMAIN data_df : ~Absent(fs[ImageName(data_df[k])])]

\* a skip-check mutant: the existence test is lost, every row is fetched
NeverDownloaded(path, dir_exists, fs) == FALSE

\* line 142: if os.path.exists(image_file_path)
AlreadyDownloaded(path, dir_exists, fs) == os_path_exists(path, dir_exists, fs)

\* a skip-branch mutant: the skipped row is not counted
SkipRowUncounted(r, k, prop_id) ==
    [r EXCEPT !.idx = k, !.events = Append(@, Ev("skip", k, prop_id, TRUE))]

\* lines 142-144: successful_count += 1; continue
SkipRow(r, k, prop_id) ==
    [r EXCEPT !.idx = k,
              !.successful_count = @ + 1,
              !.events = Append(@, Ev("skip", k, prop_id, TRUE))]

\* a counter mutant: the failed id is not appended
UpdateCountersNoAppend(r, prop_id, download_success) ==
    IF download_success
    THEN [r EXCEPT !.successful_count = @ + 1]
    ELSE [r EXCEPT !.failed_count = @ + 1]

\* lines 150-154
UpdateCounters(r, prop_id, download_success) ==
    IF download_success
    THEN [r EXCEPT !.successful_count = @ + 1]
    ELSE [r EXCEPT !.failed_count = @ + 1,
                   !.failed_property_ids = Append(@, prop_id)]

\* a rate-limit mutant: no sleep after a row that printed progress
ProgressInsteadOfDelay(r, k, prop_id) ==
    IF k % r.progress_interval = 0
    THEN [r EXCEPT !.events = Append(@, Ev("progress", k, prop_id, TRUE))]
    ELSE [r EXCEPT !.events = Append(@, Ev("delay", k, prop_id, TRUE))]

\* lines 156-168: the progress report when (idx + 1) % progress_interval == 0,
\* then time.sleep(delay); k is idx + 1
ProgressAndDelay(r, k, prop_id) ==
    LET shown == IF k % r.progress_interval = 0
                 THEN Append(r.events, Ev("progress", k, prop_id, TRUE))
                 ELSE r.events
    IN [r EXCEPT !.events = Append(shown, Ev("delay", k, prop_id, TRUE))]

\* lines 133-168: one iteration of the loop over data_df.iterrows(), on the
\* row after the idx rows already consumed.  Gives the locals and the folder
\* afterwards.
Iteration(r, dir_exists, fs, outcome) ==
    LET k == r.idx + 1
        prop_id == r.data_df[k]
        path == image_file_path(Folder, prop_id)
    IN  IF AlreadyDownloaded(path, dir_exists, fs)
        THEN [run |-> SkipRow(r, k, prop_id), files |-> fs]
        ELSE
          LET d == download_single_image(fs[path.name], outcome)
              fs2 == [fs EXCEPT ![path.name] = d.content]
              called == [r EXCEPT !.idx = k,
                                  !.events = Append(@, Ev("fetch", k, prop_id, d.ret))]
          IN  IF d.raised # "none"
              THEN [run |-> [called EXCEPT !.pc = "raised", !.error = d.raised],
                    files |-> fs2]
              ELSE [run |-> ProgressAndDelay(
                               UpdateCounters(called, prop_id, d.ret), k, prop_id),
                    files |-> fs2]

\* lines 170-193: the summary.  successful_count / total_properties raises
\* ZeroDivisionError for an empty data frame; success_rate is kept as the
\* whole percent.
Summary(r) ==
    LET total_properties == Len(r.data_df) IN
    IF total_properties = 0
    THEN [r EXCEPT !.pc = "raised", !.error = "ZeroDivisionError"]
    ELSE [r EXCEPT !.pc = "done",
                   !.stats = [total |-> total_properties,
                              successful |-> r.successful_count,
                              failed |-> r.failed_count,
                              failed_ids |-> r.failed_property_ids,
                              success_rate |->
                                 (r.successful_count * 100) \div total_properties]]

\* --------------------------------------------------- create_image_mapping
\* a naming mutant: the manifest names the images with another extension
mapping_image_path_jpeg(images_folder, x) ==
    os_path_join(images_folder, [stem |-> "property_", id |-> x, ext |-> ".jpeg"])

\* line 218: os.path.join(images_folder, f'property_{x}.jpg')
mapping_image_path(images_folder, x) ==
    os_path_join(images_folder, [stem |-> "property_", id |-> x, ext |-> ".jpg"])

\* lines 214-224: one manifest row per row of data_df, in order
create_image_mapping(data_df, images_folder, dir_exists, fs) ==
    [k \in DOMAIN data_df |->
       LET image_path == mapping_image_path(images_folder, data_df[k]) IN
       [id |-> data_df[k],
        image_path |-> image_path,
        image_exists |-> os_path_exists(image_path, dir_exists, fs)]]

\* ---------------------------------------------------------- verify_images
EndsWithJpg(f) == f.ext = ".jpg"

\* os.listdir(images_folder): the names present, each once, in any order
Listings(fs) ==
    LET present == {n \in DOMAIN fs : ~Absent(fs[n])} IN
    {l \in [1..Cardinality(present) -> present] :
        \A i, j \in DOMAIN l : i # j => l[i] # l[j]}

Min(a, b) == IF a < b THEN a ELSE b

\* a clamp mutant: the requested size is reported as checked
UnclampedSampleSize(sample_size, n) == sample_size

\* line 267: sample_size = min(sample_size, len(image_files))
ClampedSampleSize(sample_size, n) == Min(sample_size, n)

\* lines 275-282: Image.open + img.verify succeed on a well-formed image only
Decodes(content) == content = "valid"

NoReport == [total_checked |-> -1, valid_images |-> -1, corrupted_images |-> -1]

\* lines 260, 267, 273: the files verify_images opens, in order
\* (image_files[:sample_size], a slice, so never more than there are)
VerifySample(listing, sample_size) ==
    LET image_files == SelectSeq(listing, EndsWithJpg) IN
    SubSeq(image_files, 1,
           Min(ClampedSampleSize(sample_size, Len(image_files)), Len(image_files)))

\* lines 260-290, on the listing os.listdir returned
verify_images(listing, sample_size, fs) ==
    LET image_files == SelectSeq(listing, EndsWithJpg) IN
    IF Len(image_files) = 0
    THEN [total_checked |-> 0, valid_images |-> 0, corrupted_images |-> 0]
    ELSE LET sample == VerifySample(listing, sample_size) IN
         [total_checked |-> ClampedSampleSize(sample_size, Len(image_files)),
          valid_images |->
             Cardinality({i \in DOMAIN sample : Decodes(fs[sample[i]])}),
          corrupted_images |->
             Cardinality({i \in DOMAIN sample : ~Decodes(fs[sample[i]])})]

\* ------------------------------------------------------------------ state
VARIABLES
    files,        \* the images folder: file name -> content
    dir_exists,   \* whether the images folder exists
    run,          \* the locals of the download_images_for_dataset call in
                  \* progress or just ended ("idle": none)
    post,         \* the create_image_mapping / verify_images call that just
                  \* returned ("none": none), or the deletion just made
                  \* ("delete"); removed: the id whose image was deleted
                  \* right before the call (0: none)
    pairA, pairB, \* two runs that differ in progress_interval only
    filesA, filesB, \* their folders
    oracle        \* what the request for the k-th row does, for both

vars == <<files, dir_exists, run, post, pairA, pairB, filesA, filesB, oracle>>
pairVars == <<pairA, pairB, filesA, filesB, oracle>>

NoPost ==
    [op |-> "none", removed |-> 0, data_df |-> <<>>, listing |-> <<>>,
     sample_size |-> 0, manifest |-> <<>>, report |-> NoReport, error |-> "none"]

MainInit ==
    /\ dir_exists \in BOOLEAN
    /\ \E stray \in {"none", "other"} :
         /\ stray = "other" => dir_exists
         /\ files = [EmptyFolder EXCEPT ![StrayName] = stray]
    /\ run = IdleRun
    /\ post = NoPost

PairIdle ==
    /\ pairA = IdleRun
    /\ pairB = IdleRun
    /\ filesA = EmptyFolder
    /\ filesB = EmptyFolder
    /\ oracle = <<>>

Init == MainInit /\ PairIdle

\* ---------------------------------------------------------------- actions
\* no call is in progress and none has just ended
Idle == run.pc = "idle" /\ post.op = "none"

\* a call of download_images_for_dataset (os.makedirs and the set-up): any
\* data frame when idle, or the same property set again as the previous call
\* returns
StartDownload ==
    /\ post.op = "none"
    /\ run.pc \in {"idle", "done"}
    /\ \E data_df \in DataFrames, progress_interval \in Intervals :
         /\ run.pc = "done" => data_df = run.data_df
         /\ run' = EnterLoop(run, data_df, progress_interval, files)
    /\ dir_exists' = TRUE
    /\ UNCHANGED <<files, post>>

\* one row of the loop
DownloadRow ==
    /\ run.pc = "loop"
    /\ run.idx < Len(run.data_df)
    /\ \E outcome \in Outcomes :
         LET it == Iteration(run, dir_exists, files, outcome) IN
         /\ run' = it.run
         /\ files' = it.files
    /\ UNCHANGED <<dir_exists, post>>

\* the loop is exhausted: the summary and the return value
DownloadFinish ==
    /\ run.pc = "loop"
    /\ run.idx = Len(run.data_df)
    /\ run' = Summary(run)
    /\ UNCHANGED <<files, dir_exists, post>>

\* a call of create_image_mapping
CreateImageMapping ==
    /\ run.pc = "idle"
    /\ post.op \in {"none", "delete"}
    /\ \E data_df \in DataFrames :
         post' = [NoPost EXCEPT
                    !.op = "create_image_mapping",
                    !.removed = post.removed,
                    !.data_df = data_df,
                    !.manifest = create_image_mapping(data_df, Folder, dir_exists, files)]
    /\ UNCHANGED <<files, dir_exists, run>>

\* a call of verify_images; os.listdir raises when the folder is missing
VerifyImages ==
    /\ Idle
    /\ \E sample_size \in 0..MaxSample :
         IF dir_exists
         THEN \E listing \in Listings(files) :
                post' = [NoPost EXCEPT
                           !.op = "verify_images",
                           !.listing = listing,
                           !.sample_size = sample_size,
                           !.report = verify_images(listing, sample_size, files)]
         ELSE post' = [NoPost EXCEPT
                         !.op = "verify_images",
                         !.sample_size = sample_size,
                         !.error = "FileNotFoundError"]
    /\ UNCHANGED <<files, dir_exists, run>>

\* the caller takes what the call returned (or raised); the call's locals
\* are gone, the folder stays
Return ==
    /\ \/ run.pc \in {"done", "raised"}
       \/ post.op # "none"
    /\ run' = IdleRun
    /\ post' = NoPost
    /\ UNCHANGED <<files, dir_exists>>

\* between calls, someone deletes an image file
DeleteFile ==
    /\ Idle
    /\ \E x \in Ids :
         /\ ~Absent(files[ImageName(x)])
         /\ files' = [files EXCEPT ![ImageName(x)] = "none"]
         /\ post' = [NoPost EXCEPT !.op = "delete", !.removed = x]
    /\ UNCHANGED <<dir_exists, run>>

\* between calls, someone replaces an image file's bytes with non-image bytes
CorruptFile ==
    /\ Idle
    /\ \E x \in Ids :
         /\ files[ImageName(x)] = "valid"
         /\ files' = [files EXCEPT ![ImageName(x)] = "corrupt"]
    /\ UNCHANGED <<dir_exists, run, post>>

Next ==
    \/ StartDownload /\ UNCHANGED pairVars
    \/ DownloadRow /\ UNCHANGED pairVars
    \/ DownloadFinish /\ UNCHANGED pairVars
    \/ CreateImageMapping /\ UNCHANGED pairVars
    \/ VerifyImages /\ UNCHANGED pairVars
    \/ Return /\ UNCHANGED pairVars
    \/ DeleteFile /\ UNCHANGED pairVars
    \/ CorruptFile /\ UNCHANGED pairVars

Spec == Init /\ [][Next]_vars

\* ------------------------------------------- two runs, one progress_interval each
\* what a request does in the paired runs: it succeeds or it fails
PairOutcomes == {"ok", "timeout"}

\* the folders the paired runs start from: each image there or not
PairFolders ==
    {fs \in [Names -> {"none", "valid"}] : fs[StrayName] = "none"}

MainParked ==
    /\ dir_exists = TRUE
    /\ files = EmptyFolder
    /\ run = IdleRun
    /\ post = NoPost

\* the same rows, the same folder contents and the same request outcomes for
\* both runs; only progress_interval differs
InitPair ==
    /\ MainParked
    /\ \E data_df \in DataFrames, fs \in PairFolders :
       \E a \in Intervals, b \in Intervals :
         /\ a < b
         /\ oracle \in [DOMAIN data_df -> PairOutcomes]
         /\ pairA = EnterLoop(IdleRun, data_df, a, fs)
         /\ pairB = EnterLoop(IdleRun, data_df, b, fs)
         /\ filesA = fs
         /\ filesB = fs

\* both runs process their next row
PairRow ==
    /\ pairA.pc = "loop" /\ pairA.idx < Len(pairA.data_df)
    /\ pairB.pc = "loop" /\ pairB.idx < Len(pairB.data_df)
    /\ LET a == Iteration(pairA, TRUE, filesA, oracle[pairA.idx + 1])
           b == Iteration(pairB, TRUE, filesB, oracle[pairB.idx + 1])
       IN  /\ pairA' = a.run /\ filesA' = a.files
           /\ pairB' = b.run /\ filesB' = b.files
    /\ UNCHANGED oracle

\* both runs leave the loop
PairFinish ==
    /\ pairA.pc = "loop" /\ pairA.idx = Len(pairA.data_df)
    /\ pairB.pc = "loop" /\ pairB.idx = Len(pairB.data_df)
    /\ pairA' = Summary(pairA)
    /\ pairB' = Summary(pairB)
    /\ UNCHANGED <<filesA, filesB, oracle>>

NextPair ==
    \/ PairRow /\ UNCHANGED <<files, dir_exists, run, post>>
    \/ PairFinish /\ UNCHANGED <<files, dir_exists, run, post>>

SpecPair == InitPair /\ [][NextPair]_vars

\* ------------------------------------------------------ reading a run's events
IsFailedFetch(e) == e.kind = "fetch" /\ ~e.ok
IsRowEvent(e) == e.kind \in {"skip", "fetch"}
IsNotProgress(e) == e.kind # "progress"

\* the events a step appended to r's events
Appended(r, r2) == SubSeq(r2.events, Len(r.events) + 1, Len(r2.events))

Count(ev, kind) == Cardinality({i \in DOMAIN ev : ev[i].kind = kind})

\* ---------------------------------------------------------------- claims

\* C1: in every step of the loop, when a file is at property_<id>.jpg as the
\* row is reached, the row is counted as successful and nothing else happens
\* (no call of download_single_image, no delay, no progress, the folder is
\* untouched); when no file is there, download_single_image is called for
\* that row, once.
C1_SkipIffFileExists ==
    [][ (run.pc = "loop" /\ run.idx < Len(run.data_df)) =>
        LET k == run.idx + 1
            id == run.data_df[k]
            new == Appended(run, run')
        IN  IF ~Absent(files[ImageName(id)])
            THEN /\ new = <<Ev("skip", k, id, TRUE)>>
                 /\ run'.successful_count = run.successful_count + 1
                 /\ run'.failed_count = run.failed_count
                 /\ run'.failed_property_ids = run.failed_property_ids
                 /\ files' = files
            ELSE /\ Len(new) >= 1
                 /\ new[1].kind = "fetch" /\ new[1].row = k /\ new[1].id = id
                 /\ Count(new, "fetch") = 1
                 /\ Count(new, "skip") = 0
      ]_vars

\* a run that skipped one row and fetched another
C1_Witness ==
    /\ run.pc \in {"loop", "done"}
    /\ \E i, j \in DOMAIN run.events :
         /\ run.events[i].kind = "skip"
         /\ run.events[j].kind = "fetch"

\* C2: a run over a non-empty data frame never raises; when it returns, every
\* row was processed once, in order, and total = rows, failed = fetches that
\* returned False, failed_ids = their ids in input order, successful =
\* skipped rows + fetches that returned True, successful + failed = total.
C2_FailureAccounting ==
    /\ Len(run.data_df) > 0 => run.pc # "raised"
    /\ run.pc = "done" =>
         LET rows == SelectSeq(run.events, IsRowEvent)
             bad == SelectSeq(run.events, IsFailedFetch)
         IN  /\ Len(rows) = Len(run.data_df)
             /\ \A k \in DOMAIN rows :
                  rows[k].row = k /\ rows[k].id = run.data_df[k]
             /\ run.stats.total = Len(run.data_df)
             /\ run.stats.failed = Len(bad)
             /\ run.stats.failed_ids = [i \in DOMAIN bad |-> bad[i].id]
             /\ run.stats.successful = Len(rows) - Len(bad)
             /\ run.stats.successful + run.stats.failed = run.stats.total

\* two fetches failed, for ids out of numeric order, and a third row succeeded
C2_Witness ==
    /\ run.pc = "done"
    /\ run.stats.failed_ids = <<2, 1>>
    /\ run.stats.successful = 1
    /\ run.stats.total = 3

\* C3: a call with an empty data frame ends by returning total = 0,
\* successful = 0, failed = 0 and no failed ids, without raising.
C3_EmptyInputReturnsZeroStats ==
    (run.data_df = <<>> /\ run.pc \in {"done", "raised"}) =>
        /\ run.pc = "done"
        /\ run.error = "none"
        /\ run.stats.total = 0
        /\ run.stats.successful = 0
        /\ run.stats.failed = 0
        /\ run.stats.failed_ids = <<>>

C5_IdempotentRerun ==
    [][ run'.rerun =>
          /\ Count(run'.events, "fetch") = 0
          /\ run'.pc # "raised"
          /\ run.pc = "loop" => files' = files
          /\ run'.pc = "done" =>
               /\ run'.stats.successful = run'.stats.total
               /\ run'.stats.total = Len(run'.data_df)
               /\ run'.stats.failed = 0
               /\ run'.stats.failed_ids = <<>>
      ]_vars

\* such a second call has returned, over three rows
C5_Witness ==
    /\ run.rerun
    /\ run.pc = "done"
    /\ Len(run.data_df) = 3
    /\ Count(run.events, "skip") = 3

\* C6: a progress report is made for the n-th processed row exactly when n is
\* a positive multiple of progress_interval, skipped rows included.
C6_ProgressEveryInterval ==
    run.pc \in {"loop", "done"} =>
        \A n \in 1..run.idx :
            (n % run.progress_interval = 0) <=>
                (\E i \in DOMAIN run.events :
                    run.events[i].kind = "progress" /\ run.events[i].row = n)

\* C7: every call of download_single_image is followed by one delay for its
\* row, before the next row; every delay follows a call for its row; so a
\* delay lies between any two calls, and none follows a skipped row.
C7_DelayIffFetched ==
    LET ev == run.events IN
    /\ \A i \in DOMAIN ev :
         ev[i].kind = "fetch" =>
            /\ Cardinality({j \in DOMAIN ev :
                              ev[j].kind = "delay" /\ ev[j].row = ev[i].row}) = 1
            /\ \E j \in DOMAIN ev :
                 /\ j > i /\ ev[j].kind = "delay" /\ ev[j].row = ev[i].row
                 /\ \A m \in (i + 1)..(j - 1) : ev[m].kind = "progress"
    /\ \A j \in DOMAIN ev :
         ev[j].kind = "delay" =>
            \E i \in DOMAIN ev :
               i < j /\ ev[i].kind = "fetch" /\ ev[i].row = ev[j].row
    /\ \A i, k \in DOMAIN ev :
         (i < k /\ ev[i].kind = "fetch" /\ ev[k].kind = "fetch") =>
            \E j \in DOMAIN ev : i < j /\ j < k /\ ev[j].kind = "delay"
    /\ \A i, j \in DOMAIN ev :
         ev[i].kind = "skip" => ~(ev[j].kind = "delay" /\ ev[j].row = ev[i].row)

\* a run with a skipped row, two fetched rows and a progress report
C7_Witness ==
    /\ run.pc = "done"
    /\ Count(run.events, "skip") = 1
    /\ Count(run.events, "fetch") = 2
    /\ Count(run.events, "delay") = 2
    /\ Count(run.events, "progress") >= 1

C9_VerifySampleBound ==
    post.op = "verify_images" =>
        /\ post.error # "none" => ~dir_exists
        /\ post.error = "none" =>
             LET jpgs == {nm \in Names : ~Absent(files[nm]) /\ nm.ext = ".jpg"}
                 n == Cardinality(jpgs)
                 m == IF post.sample_size < n THEN post.sample_size ELSE n
                 opened == VerifySample(post.listing, post.sample_size)
             IN  /\ Len(opened) = m
                 /\ \A i \in DOMAIN opened : opened[i] \in jpgs
                 /\ \A i, j \in DOMAIN opened : i # j => opened[i] # opened[j]
                 /\ post.report.total_checked = m
                 /\ post.report.corrupted_images =
                      Cardinality({i \in DOMAIN opened : files[opened[i]] # "valid"})
                 /\ post.report.valid_images + post.report.corrupted_images
                      = post.report.total_checked
                 /\ n = 0 => post.report = [total_checked |-> 0, valid_images |-> 0,
                                            corrupted_images |-> 0]

\* more files asked for than there are, one of them corrupted, and a file
\* that is no image in the listing
C9_Witness ==
    /\ post.op = "verify_images"
    /\ post.sample_size = 3
    /\ Len(post.listing) = 3
    /\ post.report = [total_checked |-> 2, valid_images |-> 1, corrupted_images |-> 1]

\* C10: two runs on the same rows, folder and request outcomes that differ in
\* progress_interval only both run to completion, with the same skips, calls
\* of download_single_image and delays, and return the same total,
\* successful, failed and failed_ids.
C10_ProgressDoesNotAlterControlFlow ==
    (pairA.pc \in {"done", "raised"} /\ pairB.pc \in {"done", "raised"}) =>
        /\ pairA.pc = "done"
        /\ pairB.pc = "done"
        /\ SelectSeq(pairA.events, IsNotProgress) = SelectSeq(pairB.events, IsNotProgress)
        /\ pairA.stats.total = pairB.stats.total
        /\ pairA.stats.successful = pairB.stats.successful
        /\ pairA.stats.failed = pairB.stats.failed
        /\ pairA.stats.failed_ids = pairB.stats.failed_ids

\* ------------------------------------------------- what the code does instead
\* The report is made for row n exactly when n is a multiple of
\* progress_interval and download_single_image was called for the row: the
\* continue of a skipped row passes over lines 156-165.
ProgressOnlyAfterAttempt ==
    run.pc \in {"loop", "done"} =>
        \A n \in 1..run.idx :
            (\E i \in DOMAIN run.events :
                run.events[i].kind = "progress" /\ run.events[i].row = n)
            <=> /\ n % run.progress_interval = 0
                /\ \E i \in DOMAIN run.events :
                     run.events[i].kind = "fetch" /\ run.events[i].row = n

\* On a non-empty data frame the paired runs both return, with the same
\* skips, calls and delays, the same folder and the same statistics.
PairAgreesOnNonEmptyInput ==
    /\ SelectSeq(pairA.events, IsNotProgress) = SelectSeq(pairB.events, IsNotProgress)
    /\ filesA = filesB
    /\ pairA.pc = pairB.pc
    /\ Len(pairA.data_df) > 0 => pairA.pc # "raised" /\ pairB.pc # "raised"
    /\ pairA.pc = "done" => pairA.stats = pairB.stats

====
